---- MODULE Spec2Model ----
(***************************************************************************)
(* Registration ledger and OTP store of authentication/models.py.          *)
(*                                                                         *)
(* The store is two tables: users (class User) and otps (class OTP).       *)
(* Time is counted in whole minutes.  Every queryset call of the source    *)
(* (filter().delete(), filter().first(), filter().update(), create(),      *)
(* save()) is one statement against the store and is atomic; a handler is  *)
(* a sequence of such statements with no transaction around it.            *)
(*                                                                         *)
(* Spec        : the ledger's handlers, each run from start to end.        *)
(* SpecReg     : two workers run create_user statement by statement, with  *)
(*               cleanups and verification flips in between.               *)
(* SpecOtp     : the OTP store's handlers, each run from start to end.     *)
(* SpecOtpConc : two workers run create_otp_for_user statement by          *)
(*               statement.                                                *)
(* SpecCascade : the OTP store's handlers together with                    *)
(*               cleanup_expired_registrations.                            *)
(* SpecRating  : two workers load a user row and call update_rating on     *)
(*               their copies.                                             *)
(***************************************************************************)
EXTENDS Integers, FiniteSets, Sequences, TLC

VARIABLES users, otps, now, nextUid, nextOid, ret, wk

vars == <<users, otps, now, nextUid, nextOid, ret, wk>>

(***************************************************************************)
(* Bounds of the model.                                                    *)
(***************************************************************************)
MaxTime == 10
MaxOtpTime == 20
MaxUsers == 2
MaxOtps == 2
MaxRedeems == 4

(***************************************************************************)
(* Program constants.                                                      *)
(***************************************************************************)
GRACE_MINUTES == 5
OTP_MINUTES == 10
MAX_ATTEMPTS == 3

(***************************************************************************)
(* Input domains.                                                          *)
(***************************************************************************)
NoPhone == "none"
Emails == {"a@x", "b@x"}
EmailInputs == {"a@x", "a@X", "b@x", "", "bad"}
Phones == {"p1", "p2"}
PhoneInputs == Phones \cup {NoPhone}
Types == {"EMAIL", "PHONE"}
Codes == {"111111", "222222"}
\* The codes the random digits are taken to give.
DrawnCodes == {"111111"}
Workers == {1, 2}

\* BaseUserManager.normalize_email: lower-cases the domain part.
normalize_email(e) == IF e = "a@X" THEN "a@x" ELSE e

\* EmailField validation inside full_clean.
EmailWellFormed(e) == e \in Emails

(***************************************************************************)
(* User: the fields of a row the registration logic reads or writes.       *)
(***************************************************************************)
\* Ratings are kept in hundredths: rating_as_driver = 1.2 is 120.
NewUser(id, email, phone, rp, act, t) ==
    [id |-> id, email |-> email, phone |-> phone, pending |-> rp,
     active |-> act, ev |-> FALSE, pv |-> FALSE, created |-> t,
     rating_as_driver |-> 0, rating_as_passenger |-> 0]

\* User.registration_expired / the created_at__lt filters: strictly older
\* than the grace window.
Expired(u, t) == u.pending /\ u.created < t - GRACE_MINUTES

\* created_at__gt = now - 5 minutes: strictly inside the grace window.
Unexpired(u, t) == u.pending /\ u.created > t - GRACE_MINUTES


(***************************************************************************)
(* Statements against the store.                                           *)
(***************************************************************************)
Ids(V) == {u.id : u \in V}

\* QuerySet.delete(): removes the rows and, through OTP.user
\* (on_delete = CASCADE), the OTPs that point at them; [0] of its result is
\* the number of objects removed, the cascaded ones included.
Delete(U, O, V) ==
    LET gone == {o \in O : o.user \in Ids(V)}
    IN  [users |-> U \ V, otps |-> O \ gone,
         count |-> Cardinality(V) + Cardinality(gone)]

\* final_query built as base_query & specific_query.
CleanupQueryAnd(U, t, email, phone) ==
    {u \in U :
        /\ u.pending /\ u.created < t - GRACE_MINUTES
        /\ (email # "" \/ phone # NoPhone) =>
              \/ email # "" /\ u.email = email
              \/ phone # NoPhone /\ u.phone = phone}

\* final_query with registration_pending = True left out of specific_query.
CleanupQueryAnyState(U, t, email, phone) ==
    {u \in U :
        \/ u.pending /\ u.created < t - GRACE_MINUTES
        \/ email # "" /\ u.email = email
        \/ phone # NoPhone /\ u.phone = phone}

\* final_query of cleanup_expired_registrations.
CleanupQuery(U, t, email, phone) ==
    {u \in U :
        \/ Expired(u, t)
        \/ /\ email # ""
           /\ u.email = email /\ u.pending
        \/ /\ phone # NoPhone
           /\ u.phone = phone /\ u.pending}

\* The pending_user query of create_user, before .first().
PendingUserQuery(U, t, email) ==
    {u \in U : u.email = email /\ Unexpired(u, t)}

\* .first() under Meta.ordering = ["-created_at"].
First(S) == CHOOSE u \in S : \A v \in S : v.created <= u.created

\* The delete inside User.save for a new pending row.
SavePurgeQuery(U, t, r) ==
    IF r.pending
    THEN {u \in U : (u.email = r.email \/ u.phone = r.phone) /\ Expired(u, t)}
    ELSE {}

\* full_clean: the field validators (EmailField, phone_number is required).
FieldsValid(r) == EmailWellFormed(r.email) /\ r.phone # NoPhone

\* full_clean: validate_unique on email (unique = True) and the conditional
\* constraints, which apply to a row that is itself not pending.
UniqueValid(U, r) ==
    /\ \A u \in U : u.id # r.id => u.email # r.email
    /\ ~r.pending =>
          \A u \in U : (u.id # r.id /\ ~u.pending) => u.phone # r.phone

\* ConstraintsOK without unique_verified_phone.
ConstraintsNoPhone(U, r) ==
    \A u \in U : u.id # r.id => u.email # r.email

\* What the database enforces on INSERT and UPDATE: User.email unique = True,
\* unique_verified_email and unique_verified_phone over the rows with
\* registration_pending = False.
ConstraintsOK(U, r) ==
    /\ \A u \in U : u.id # r.id => u.email # r.email
    /\ ~r.pending =>
          \A u \in U : (u.id # r.id /\ ~u.pending) =>
                          (u.email # r.email /\ u.phone # r.phone)

Outcome(U, O, res, id, n) ==
    [users |-> U, otps |-> O, res |-> res, id |-> id, n |-> n]

(***************************************************************************)
(* CustomUserManager.create_user run from start to end at time t: the      *)
(* store it leaves and what it returns.  rp and act are the caller's       *)
(* registration_pending and is_active (extra_fields, default True/False).  *)
(***************************************************************************)
create_user(U, O, t, nid, emailIn, phone, rp, act) ==
    IF emailIn = "" THEN Outcome(U, O, "email_required", 0, 0)
    ELSE
    LET email == normalize_email(emailIn)
        c == Delete(U, O, CleanupQuery(U, t, email, NoPhone))
        pend == PendingUserQuery(c.users, t, email)
        r == NewUser(nid, email, phone, rp, act, t)
    IN  IF pend # {}
        THEN Outcome(c.users, c.otps,
                     IF ~First(pend).ev THEN "email_pending" ELSE "phone_pending",
                     First(pend).id,
                     First(pend).created + GRACE_MINUTES - t)
        ELSE IF ~FieldsValid(r) THEN Outcome(c.users, c.otps, "invalid", 0, 0)
        ELSE IF ~UniqueValid(c.users, r)
        THEN Outcome(c.users, c.otps, "duplicate", 0, 0)
        ELSE
        LET s == Delete(c.users, c.otps, SavePurgeQuery(c.users, t, r))
        IN  IF ~ConstraintsOK(s.users, r)
            THEN Outcome(s.users, s.otps, "duplicate", 0, 0)
            ELSE Outcome(s.users \cup {r}, s.otps, "created", nid, 0)

Ret(op, res, id, n) == [op |-> op, res |-> res, id |-> id, n |-> n]

Idle == [w \in Workers |-> [pc |-> "idle"]]

Init ==
    /\ users = {}
    /\ otps = {}
    /\ now = 0
    /\ nextUid = 1
    /\ nextOid = 1
    /\ ret = Ret("none", "none", 0, 0)
    /\ wk = Idle

\* The ledger's clock is read at multiples of the grace window, so a row is
\* seen at the ages 0, 5 (the boundary of the window) and 10 minutes.
Advance(step, limit) ==
    /\ now + step <= limit
    /\ now' = now + step

Tick ==
    /\ Advance(GRACE_MINUTES, MaxTime)
    /\ UNCHANGED <<users, otps, nextUid, nextOid, ret, wk>>

CreateUser(emailIn, phone, rp) ==
    /\ nextUid <= MaxUsers
    /\ LET out == create_user(users, otps, now, nextUid, emailIn, phone, rp, FALSE)
       IN  /\ users' = out.users
           /\ otps' = out.otps
           /\ nextUid' = IF out.res = "created" THEN nextUid + 1 ELSE nextUid
           /\ ret' = Ret("create_user", out.res, out.id, out.n)
    /\ UNCHANGED <<now, nextOid, wk>>

\* create_superuser: is_staff and is_superuser must be True, is_active
\* defaults to True, and the rest is create_user.
CreateSuperuser(emailIn, phone, staff) ==
    /\ nextUid <= MaxUsers
    /\ IF ~staff
       THEN /\ emailIn = "" /\ phone = NoPhone
            /\ ret' = Ret("create_superuser", "not_staff", 0, 0)
            /\ UNCHANGED <<users, otps, nextUid>>
       ELSE LET out == create_user(users, otps, now, nextUid, emailIn, phone, TRUE, TRUE)
            IN  /\ users' = out.users
                /\ otps' = out.otps
                /\ nextUid' = IF out.res = "created" THEN nextUid + 1 ELSE nextUid
                /\ ret' = Ret("create_superuser", out.res, out.id, out.n)
    /\ UNCHANGED <<now, nextOid, wk>>

\* User.cleanup_expired_registrations(email, phone_number) called on its own.
Cleanup(email, phone) ==
    /\ LET d == Delete(users, otps, CleanupQuery(users, now, email, phone))
       IN  /\ users' = d.users
           /\ otps' = d.otps
           /\ ret' = Ret("cleanup", "ok", 0, d.count)
    /\ UNCHANGED <<now, nextUid, nextOid, wk>>

\* Ledger.confirm(record, field): the verification flag is set and, once both
\* are set, registration_pending and is_active flip in the same write; the
\* write is User.save() on a stored row, which the constraints may refuse.
Confirmed(u, field) ==
    LET e == u.ev \/ field = "EMAIL"
        p == u.pv \/ field = "PHONE"
    IN  [u EXCEPT !.ev = e, !.pv = p,
                  !.pending = IF e /\ p THEN FALSE ELSE u.pending,
                  !.active = IF e /\ p THEN TRUE ELSE u.active]

Confirm(u, field) ==
    /\ u \in users
    /\ u.pending
    /\ LET r == Confirmed(u, field)
       IN  IF ConstraintsOK(users, r)
           THEN /\ users' = (users \ {u}) \cup {r}
                /\ ret' = Ret("confirm", "ok", u.id, 0)
           ELSE /\ users' = users
                /\ ret' = Ret("confirm", "conflict", u.id, 0)
    /\ UNCHANGED <<otps, now, nextUid, nextOid, wk>>

(***************************************************************************)
(* OTP store.                                                              *)
(***************************************************************************)
NewOtp(id, uid, type, code, t) ==
    [id |-> id, user |-> uid, type |-> type, code |-> code, created |-> t,
     verified |-> FALSE, attempts |-> 0]

\* is_valid with the last minute of the window left out.
is_valid_strict(o, t) ==
    /\ t < o.created + OTP_MINUTES
    /\ ~o.verified
    /\ o.attempts < MAX_ATTEMPTS

\* is_valid without the attempts limit.
is_valid_unlimited(o, t) ==
    /\ t <= o.created + OTP_MINUTES
    /\ ~o.verified

\* OTP.is_valid at time t.
is_valid(o, t) ==
    /\ t <= o.created + OTP_MINUTES
    /\ ~o.verified
    /\ o.attempts < MAX_ATTEMPTS

\* MarkQuery with the is_verified filter set to True.
MarkQueryVerified(O, uid, type) ==
    {o \in O : o.user = uid /\ o.verified /\ o.type = type}

\* MarkQuery without the type filter.
MarkQueryAnyType(O, uid, type) ==
    {o \in O : o.user = uid /\ ~o.verified}

\* filter(user = user, is_verified = False, type = otp_type)
MarkQuery(O, uid, type) ==
    {o \in O : o.user = uid /\ ~o.verified /\ o.type = type}

\* .update(is_verified = True) on the rows of S.
MarkVerified(O, S) ==
    {IF o \in S THEN [o EXCEPT !.verified = TRUE] ELSE o : o \in O}

\* OTP.create_otp_for_user run from start to end; code is what the six
\* random.randint draws give.
CreateOtp(u, type, code) ==
    /\ u \in users
    /\ nextOid <= MaxOtps
    /\ otps' = MarkVerified(otps, MarkQuery(otps, u.id, type))
                  \cup {NewOtp(nextOid, u.id, type, code, now)}
    /\ nextOid' = nextOid + 1
    /\ ret' = Ret("create_otp", "ok", nextOid, 0)
    /\ UNCHANGED <<users, now, nextUid, wk>>

\* OtpStore.redeem(otp, candidate) followed, on success, by the caller's
\* is_verified = True: every call counts as an attempt; the answer rests on
\* OTP.is_valid as it was when the call came in.  ret.n is 1 when the
\* candidate was the right code.
RedeemAnswer(o, t, cand) ==
    IF is_valid(o, t)
    THEN IF cand = o.code THEN "ok" ELSE "WrongCode"
    ELSE IF o.attempts >= MAX_ATTEMPTS THEN "TooManyAttempts" ELSE "Expired"

RECURSIVE Attempts(_)
Attempts(O) ==
    IF O = {} THEN 0
    ELSE LET o == CHOOSE x \in O : TRUE IN o.attempts + Attempts(O \ {o})

Redeem(o, cand) ==
    /\ o \in otps
    /\ Attempts(otps) < MaxRedeems
    /\ LET res == RedeemAnswer(o, now, cand)
           o2 == [o EXCEPT !.attempts = o.attempts + 1,
                           !.verified = o.verified \/ res = "ok"]
       IN  /\ otps' = (otps \ {o}) \cup {o2}
           /\ ret' = Ret("redeem", res, o.id, IF cand = o.code THEN 1 ELSE 0)
    /\ UNCHANGED <<users, now, nextUid, nextOid, wk>>

\* The OTP store's clock is read at multiples of an OTP's life: ages 0, 10
\* (the last valid minute) and 20 minutes.
TickOtp ==
    /\ Advance(OTP_MINUTES, MaxOtpTime)
    /\ UNCHANGED <<users, otps, nextUid, nextOid, ret, wk>>

\* Two registrations in flight, made by create_user at time 0.
InitOtp ==
    /\ users = {NewUser(1, "a@x", "p1", TRUE, FALSE, 0),
                NewUser(2, "b@x", "p2", TRUE, FALSE, 0)}
    /\ otps = {}
    /\ now = 0
    /\ nextUid = 3
    /\ nextOid = 1
    /\ ret = Ret("none", "none", 0, 0)
    /\ wk = Idle

NextOtp ==
    \/ TickOtp
    \/ \E u \in users, T \in Types, c \in DrawnCodes : CreateOtp(u, T, c)
    \/ \E o \in otps, c \in Codes : Redeem(o, c)

SpecOtp == InitOtp /\ [][NextOtp]_vars

(***************************************************************************)
(* create_user, statement by statement, by worker w.  Between two          *)
(* statements of one worker the other worker and the clock may move.       *)
(***************************************************************************)
Goto(w, rec) == wk' = [wk EXCEPT ![w] = rec]

Done(w, res, id, n) ==
    Goto(w, [pc |-> "done", email |-> wk[w].email, rp |-> wk[w].rp,
             res |-> res, id |-> id, n |-> n])

\* Lines 15-18: the email argument is checked and normalised.
RegCall(w, emailIn, phone, rp) ==
    /\ wk[w].pc = "idle"
    /\ IF emailIn = ""
       THEN Goto(w, [pc |-> "done", email |-> "", rp |-> rp,
                     res |-> "email_required", id |-> 0, n |-> 0])
       ELSE Goto(w, [pc |-> "cleanup", email |-> normalize_email(emailIn),
                     phone |-> phone, rp |-> rp])
    /\ UNCHANGED <<users, otps, now, nextUid, nextOid, ret>>

\* Line 20.
RegCleanup(w) ==
    /\ wk[w].pc = "cleanup"
    /\ LET d == Delete(users, otps, CleanupQuery(users, now, wk[w].email, NoPhone))
       IN  users' = d.users /\ otps' = d.otps
    /\ Goto(w, [wk[w] EXCEPT !.pc = "check"])
    /\ UNCHANGED <<now, nextUid, nextOid, ret>>

\* Lines 22-42.
RegCheck(w) ==
    /\ wk[w].pc = "check"
    /\ LET pend == PendingUserQuery(users, now, wk[w].email)
       IN  IF pend # {}
           THEN Done(w, IF ~First(pend).ev THEN "email_pending" ELSE "phone_pending",
                     First(pend).id, First(pend).created + GRACE_MINUTES - now)
           ELSE Goto(w, [wk[w] EXCEPT !.pc = "clean"])
    /\ UNCHANGED <<users, otps, now, nextUid, nextOid, ret>>

\* Line 52: full_clean on the unsaved instance.
RegFullClean(w) ==
    /\ wk[w].pc = "clean"
    /\ LET r == NewUser(0, wk[w].email, wk[w].phone, wk[w].rp, FALSE, now)
       IN  IF ~FieldsValid(r) THEN Done(w, "invalid", 0, 0)
           ELSE IF ~UniqueValid(users, r) THEN Done(w, "duplicate", 0, 0)
           ELSE Goto(w, [wk[w] EXCEPT !.pc = "purge"])
    /\ UNCHANGED <<users, otps, now, nextUid, nextOid, ret>>

\* Lines 160-165: the delete at the head of User.save.
RegPurge(w) ==
    /\ wk[w].pc = "purge"
    /\ LET r == NewUser(0, wk[w].email, wk[w].phone, wk[w].rp, FALSE, now)
           d == Delete(users, otps, SavePurgeQuery(users, now, r))
       IN  users' = d.users /\ otps' = d.otps
    /\ Goto(w, [wk[w] EXCEPT !.pc = "insert"])
    /\ UNCHANGED <<now, nextUid, nextOid, ret>>

\* Line 166 and lines 54-57: the INSERT, refused by the database when a
\* constraint fails (IntegrityError, reported as ValueError).
RegInsert(w) ==
    /\ wk[w].pc = "insert"
    /\ LET r == NewUser(nextUid, wk[w].email, wk[w].phone, wk[w].rp, FALSE, now)
       IN  IF ConstraintsOK(users, r)
           THEN /\ users' = users \cup {r}
                /\ nextUid' = nextUid + 1
                /\ Done(w, "created", nextUid, 0)
           ELSE /\ UNCHANGED <<users, nextUid>>
                /\ Done(w, "duplicate", 0, 0)
    /\ UNCHANGED <<otps, now, nextOid, ret>>

NextReg ==
    \/ Tick
    \/ \E w \in Workers, e \in EmailInputs, p \in PhoneInputs, rp \in BOOLEAN :
          RegCall(w, e, p, rp)
    \/ \E w \in Workers : RegCleanup(w)
    \/ \E w \in Workers : RegCheck(w)
    \/ \E w \in Workers : RegFullClean(w)
    \/ \E w \in Workers : RegPurge(w)
    \/ \E w \in Workers : RegInsert(w)
    \/ \E e \in Emails \cup {""}, p \in PhoneInputs : Cleanup(e, p)
    \/ \E u \in users, f \in Types : Confirm(u, f)

SpecReg == Init /\ [][NextReg]_vars

(***************************************************************************)
(* create_otp_for_user, statement by statement, by worker w.               *)
(***************************************************************************)
OtpCall(w, u, type) ==
    /\ wk[w].pc = "idle"
    /\ u \in users
    /\ Goto(w, [pc |-> "mark", user |-> u.id, type |-> type])
    /\ UNCHANGED <<users, otps, now, nextUid, nextOid, ret>>

\* Lines 232-234.
OtpMark(w) ==
    /\ wk[w].pc = "mark"
    /\ otps' = MarkVerified(otps, MarkQuery(otps, wk[w].user, wk[w].type))
    /\ Goto(w, [wk[w] EXCEPT !.pc = "create"])
    /\ UNCHANGED <<users, now, nextUid, nextOid, ret>>

\* Lines 237-238.
OtpCreate(w, code) ==
    /\ wk[w].pc = "create"
    /\ otps' = otps \cup {NewOtp(nextOid, wk[w].user, wk[w].type, code, now)}
    /\ nextOid' = nextOid + 1
    /\ Goto(w, [pc |-> "done", user |-> wk[w].user, type |-> wk[w].type,
                id |-> nextOid])
    /\ UNCHANGED <<users, now, nextUid, ret>>

NextOtpConc ==
    \/ TickOtp
    \/ \E w \in Workers, u \in users, T \in Types : OtpCall(w, u, T)
    \/ \E w \in Workers : OtpMark(w)
    \/ \E w \in Workers, c \in DrawnCodes : OtpCreate(w, c)

SpecOtpConc == InitOtp /\ [][NextOtpConc]_vars

Next ==
    \/ Tick
    \/ \E e \in EmailInputs, p \in PhoneInputs, rp \in BOOLEAN : CreateUser(e, p, rp)
    \/ \E e \in EmailInputs, p \in PhoneInputs, s \in BOOLEAN : CreateSuperuser(e, p, s)
    \/ \E e \in Emails \cup {""}, p \in PhoneInputs : Cleanup(e, p)
    \/ \E u \in users, f \in Types : Confirm(u, f)

Spec == Init /\ [][Next]_vars


(***************************************************************************)
(* Properties.                                                             *)
(***************************************************************************)
Sharing(U, email, phone) == {u \in U : u.email = email \/ u.phone = phone}

\* C1: at most one record with registration_pending = false holds any email,
\* and at most one holds any phone_number, in every reachable state of the
\* store under interleaved create_user calls, cleanups and verification flips.
C1_UniqueVerified ==
    \A u \in users, v \in users :
        (u # v /\ ~u.pending /\ ~v.pending)
            => (u.email # v.email /\ u.phone # v.phone)

\* A verification flip was refused while a confirmed record is in the store.
C1_Witness ==
    /\ ret.op = "confirm" /\ ret.res = "conflict"
    /\ \E u \in users, v \in users :
          /\ ~u.pending /\ v.pending /\ v.id = ret.id
          /\ u.phone = v.phone /\ v.ev /\ ~v.pv

\* C2: when every record that shares the candidate's email or phone_number is
\* a pending record created more than 5 minutes ago, create_user with valid
\* input creates the new record (no 'verification pending' error) and none of
\* those expired records is in the store afterwards.
C2_ExpiredNeverBlocks ==
    \A e \in EmailInputs, p \in Phones, rp \in BOOLEAN :
        LET em == normalize_email(e)
            old == Sharing(users, em, p)
            out == create_user(users, otps, now, nextUid, e, p, rp, FALSE)
        IN  (EmailWellFormed(em) /\ \A u \in old : Expired(u, now))
                => /\ out.res = "created"
                   /\ \E r \in out.users \ users :
                         /\ r.id = out.id /\ r.email = em /\ r.phone = p
                         /\ r.pending = rp /\ r.created = now
                   /\ old \cap out.users = {}

\* An expired registration of another email holds the candidate's
\* phone_number, nothing else shares the identity, and create_user, which the
\* bound still allows, creates the new pending record.
C2_Witness ==
    \E e \in Emails, p \in Phones :
        /\ nextUid <= MaxUsers
        /\ \E u \in users : u.email # e /\ u.phone = p /\ Expired(u, now)
        /\ \A u \in Sharing(users, e, p) : Expired(u, now)
        /\ create_user(users, otps, now, nextUid, e, p, TRUE, FALSE).res = "created"

Blocked(res) == res \in {"email_pending", "phone_pending"}

\* C3: when two workers run create_user for the same email concurrently
\* (default extra_fields, valid input, no other operation and no time passing
\* in between), exactly one call returns a new pending record, the other
\* fails with the verification-pending error, and afterwards exactly one
\* pending record holds that email: the one returned.
C3_ExactlyOneRegisters ==
    (/\ \A w \in Workers : wk[w].pc = "done" /\ wk[w].rp
                              /\ wk[w].res \notin {"invalid", "email_required"}
     /\ wk[1].email = wk[2].email
     /\ now = 0 /\ ret.op = "none")
        => \E w \in Workers, v \in Workers :
              /\ w # v
              /\ wk[w].res = "created"
              /\ Blocked(wk[v].res)
              /\ {u.id : u \in {x \in users : x.email = wk[w].email /\ x.pending}}
                    = {wk[w].id}

\* C4: when an unexpired pending record holds the candidate email or the
\* candidate phone_number, create_user fails with the verification-pending
\* error, creates no record and leaves that record in the store (valid input).
C4_UnexpiredBlocks ==
    \A e \in EmailInputs, p \in Phones, rp \in BOOLEAN :
        LET em == normalize_email(e)
            out == create_user(users, otps, now, nextUid, e, p, rp, FALSE)
        IN  (/\ EmailWellFormed(em)
             /\ \E u \in users : Unexpired(u, now) /\ (u.email = em \/ u.phone = p))
                => /\ Blocked(out.res)
                   /\ out.users = users

\* C5: when a record with registration_pending = false holds the candidate
\* email or the candidate phone_number, create_user fails with the
\* duplicate-account error and adds no record with that email or phone_number
\* (valid input).
C5_ConfirmedBlocks ==
    \A e \in EmailInputs, p \in Phones, rp \in BOOLEAN :
        LET em == normalize_email(e)
            out == create_user(users, otps, now, nextUid, e, p, rp, FALSE)
        IN  (/\ EmailWellFormed(em)
             /\ \E u \in users : ~u.pending /\ (u.email = em \/ u.phone = p))
                => /\ out.res = "duplicate"
                   /\ Sharing(out.users \ users, em, p) = {}

SameSlot(a, b) == a.user = b.user /\ a.type = b.type

\* C6: after two create_otp_for_user calls in succession for one user and
\* type, the OTP of the first call has is_verified = true and the OTP of the
\* second call, with attempts = 0, is the only one of that user and type with
\* is_verified = false.
C6_SecondIssueSupersedes ==
    ret.op = "create_otp" =>
        \A f \in otps, s \in otps :
            (s.id = ret.id /\ f.id = ret.id - 1 /\ SameSlot(f, s))
                => /\ f.verified
                   /\ ~s.verified /\ s.attempts = 0
                   /\ {o \in otps : SameSlot(o, s) /\ ~o.verified} = {s}

\* The last two OTPs issued are of one user and type, and the first was never
\* redeemed.
C6_Witness ==
    /\ ret.op = "create_otp"
    /\ \E f \in otps, s \in otps :
          s.id = ret.id /\ f.id = ret.id - 1 /\ SameSlot(f, s) /\ f.attempts = 0

\* C7: at most one OTP of a user and type satisfies is_valid, in every state
\* reached by interleaving the statements of concurrent create_otp_for_user
\* calls.
C7_AtMostOneLive ==
    \A a \in otps, b \in otps :
        (SameSlot(a, b) /\ is_valid(a, now) /\ is_valid(b, now)) => a = b

\* C8: once an OTP has three attempts against it, every later redemption of it
\* fails with TooManyAttempts, the right code within the 10 minutes included;
\* its attempts never decrease and it is never valid again.
C8_LockedOut ==
    [][\A o \in otps :
          o.attempts >= MAX_ATTEMPTS =>
              /\ \A c \in Codes : Redeem(o, c) => ret'.res = "TooManyAttempts"
              /\ \E o2 \in otps' : o2.id = o.id
              /\ \A o2 \in otps' :
                    o2.id = o.id => (o2.attempts >= o.attempts /\ ~is_valid(o2, now'))
      ]_vars

\* The fourth redemption of an unverified OTP still inside its 10 minutes was
\* made with the right code and was answered TooManyAttempts.
C8_Witness ==
    /\ ret.op = "redeem" /\ ret.res = "TooManyAttempts" /\ ret.n = 1
    /\ \E o \in otps :
          /\ o.id = ret.id /\ ~o.verified
          /\ now <= o.created + OTP_MINUTES
          /\ o.attempts = MAX_ATTEMPTS + 1

\* C9: is_valid() is true exactly when is_verified = false, attempts < 3 and
\* now - created_at <= 10 minutes.
C9_ValidIff ==
    \A o \in otps :
        is_valid(o, now)
            <=> (o.verified = FALSE /\ o.attempts < 3 /\ now - o.created <= 10)

\* An OTP exactly 10 minutes old is valid, and a verified one is not.
C9_Witness ==
    /\ \E o \in otps : now - o.created = 10 /\ is_valid(o, now)
    /\ \E o \in otps : o.verified /\ ~is_valid(o, now)

MostRecent(S) == {u \in S : \A v \in S : v.created <= u.created}

\* C10: cleanup_expired_registrations(email, phone_number) called with an
\* email or a phone deletes exactly the expired pending records and the
\* pending records matching that identity that are not the most recent one;
\* an unexpired most recent match stays.
C10_KeepsMostRecent ==
    \A e \in Emails \cup {""}, p \in PhoneInputs :
        LET hit == {u \in users : u.pending /\ ((e # "" /\ u.email = e)
                                                 \/ (p # NoPhone /\ u.phone = p))}
            gone == CleanupQuery(users, now, e, p)
        IN  (e # "" \/ p # NoPhone)
                => /\ \A u \in MostRecent(hit) : Unexpired(u, now) => u \notin gone
                   /\ gone = {u \in users : Expired(u, now)}
                                \cup (hit \ MostRecent(hit))


(***************************************************************************)
(* The ledger's cleanup against a store that holds OTPs.                   *)
(***************************************************************************)
NextCascade ==
    \/ Tick
    \/ \E u \in users, T \in Types, c \in DrawnCodes : CreateOtp(u, T, c)
    \/ \E o \in otps, c \in Codes : Redeem(o, c)
    \/ \E e \in Emails \cup {""}, p \in PhoneInputs : Cleanup(e, p)

SpecCascade == InitOtp /\ [][NextCascade]_vars

\* C11: no step of create_otp_for_user, a redemption or
\* cleanup_expired_registrations removes an OTP from the store, so every OTP
\* ever created is still there; only is_verified and attempts may differ.
C11_OtpsNeverDestroyed ==
    [][\A o \in otps : \E o2 \in otps' :
          o2 = [o EXCEPT !.verified = o2.verified, !.attempts = o2.attempts]
      ]_vars

\* C17: the value cleanup_expired_registrations returns is the number of user
\* records it removes, also when the removed users own OTPs.
C17_CountsUsers ==
    \A e \in Emails \cup {""}, p \in PhoneInputs :
        LET gone == CleanupQuery(users, now, e, p)
        IN  Delete(users, otps, gone).count = Cardinality(gone)


\* C12: a create_user call rejected by input validation (empty or malformed
\* email, missing phone_number) leaves the store as it was.
C12_RejectedLeavesStore ==
    \A e \in EmailInputs, p \in PhoneInputs, rp \in BOOLEAN :
        LET out == create_user(users, otps, now, nextUid, e, p, rp, FALSE)
        IN  out.res \in {"email_required", "invalid"}
                => (out.users = users /\ out.otps = otps)

\* C15: of two distinct pending records that share an email or a
\* phone_number, at least one is older than 5 minutes.
C15_NoTwoLivePending ==
    \A u \in users, v \in users :
        (u # v /\ u.pending /\ v.pending
              /\ (u.email = v.email \/ u.phone = v.phone))
            => (u.created < now - GRACE_MINUTES \/ v.created < now - GRACE_MINUTES)

\* C16: every record with registration_pending = true has is_active = false.
C16_PendingInactive ==
    \A u \in users : u.pending => ~u.active

\* C18: no cleanup_expired_registrations call, whatever its arguments, and no
\* purge of save() deletes a record with registration_pending = false; the
\* purge of save() deletes only pending records older than 5 minutes.
C18_ConfirmedNeverReclaimed ==
    /\ \A e \in Emails \cup {""}, p \in PhoneInputs :
          \A u \in users :
              ~u.pending => u \in Delete(users, otps, CleanupQuery(users, now, e, p)).users
    /\ \A e \in Emails, p \in Phones, rp \in BOOLEAN :
          \A u \in SavePurgeQuery(users, now, NewUser(nextUid, e, p, rp, FALSE, now)) :
              u.pending /\ now - u.created > GRACE_MINUTES

\* A cleanup has just removed a record while a confirmed account older than
\* the grace window stayed in the store.
C18_Witness ==
    /\ ret.op = "cleanup" /\ ret.n >= 1
    /\ \E u \in users : ~u.pending /\ u.created < now - GRACE_MINUTES


\* C19: create_otp_for_user(user, T) leaves every OTP of another user or
\* another type as it is and changes nothing of the OTPs of (user, T) but
\* is_verified, from false to true; no step of the OTP store takes
\* is_verified from true back to false.
C19_IssueFrame ==
    [][/\ \A u \in users, T \in Types, c \in DrawnCodes :
            CreateOtp(u, T, c) =>
                \A o \in otps :
                    IF o.user = u.id /\ o.type = T
                    THEN [o EXCEPT !.verified = TRUE] \in otps'
                    ELSE o \in otps'
       /\ \A o \in otps : \A o2 \in otps' :
            (o2.id = o.id /\ o.verified) => o2.verified
      ]_vars

\* An OTP has just been issued while an older OTP of another user or type,
\* redeemed once with a wrong code, is still unverified.
C19_Witness ==
    /\ ret.op = "create_otp"
    /\ \E o \in otps, s \in otps :
          /\ s.id = ret.id /\ o.id < s.id /\ ~SameSlot(o, s)
          /\ o.user = s.user
          /\ ~o.verified /\ o.attempts = 1

-----------------------------------------------------------------------------
\* Ratings.  A worker loads its own copy of a user row, then calls
\* update_rating on that copy; update_rating changes one rating of the copy and
\* ends in self.save(), which writes every column of the copy to the row.

MaxRatings == 2

\* The weights of update_rating, in tenths.
WEIGHT_NEW == 3
WEIGHT_OLD == 7

\* Rating.score is validated to lie in 1..5.
Samples == 1 .. 5

Rating(u, as_driver) ==
    IF as_driver THEN u.rating_as_driver ELSE u.rating_as_passenger

\* round(x, 2) of a value given in thousandths, in hundredths.  A value that
\* lies exactly between two hundredths has no exact binary representation,
\* and the float on either side of it may be the one that is rounded: both
\* neighbours are possible results.
Round2(x) ==
    LET q == x \div 10
        r == x % 10
    IN  IF r < 5 THEN {q} ELSE IF r > 5 THEN {q + 1} ELSE {q, q + 1}

EmaSwapped(old, new_rating) ==
    Round2(WEIGHT_NEW * old + WEIGHT_OLD * 100 * new_rating)

Ema(old, new_rating) ==
    Round2(WEIGHT_OLD * old + WEIGHT_NEW * 100 * new_rating)

\* The copies that update_rating can leave in memory before it saves.
update_rating(u, new_rating, as_driver) ==
    { IF as_driver THEN [u EXCEPT !.rating_as_driver = r]
                   ELSE [u EXCEPT !.rating_as_passenger = r] :
        r \in Ema(Rating(u, as_driver), new_rating) }

\* save() of a loaded instance: not adding, so no purge; one UPDATE that sets
\* every column of the row with the copy's primary key.
SaveRow(U, copy) == {u \in U : u.id # copy.id} \cup {copy}

\* Calls of update_rating made so far, by all workers together.
Calls ==
    LET n(w) == IF wk[w].pc = "loaded" THEN wk[w].n ELSE 0
    IN  n(1) + n(2)

RateLoad(w) ==
    /\ wk[w].pc = "idle"
    /\ \E u \in users :
          Goto(w, [pc |-> "loaded", copy |-> u, n |-> 0, s |-> 0, d |-> TRUE])
    /\ UNCHANGED <<users, otps, now, nextUid, nextOid, ret>>

RateUpdate(w, new_rating, as_driver) ==
    /\ wk[w].pc = "loaded"
    /\ Calls < MaxRatings
    /\ \E c \in update_rating(wk[w].copy, new_rating, as_driver) :
          /\ users' = SaveRow(users, c)
          /\ Goto(w, [pc |-> "loaded", copy |-> c, n |-> wk[w].n + 1,
                      s |-> new_rating, d |-> as_driver])
          /\ ret' = Ret("update_rating", "saved", c.id, 0)
    /\ UNCHANGED <<otps, now, nextUid, nextOid>>

InitRating ==
    /\ users = {NewUser(1, "a@x", "p1", TRUE, FALSE, 0)}
    /\ otps = {}
    /\ now = 0
    /\ nextUid = 2
    /\ nextOid = 1
    /\ ret = Ret("none", "none", 0, 0)
    /\ wk = Idle

NextRating ==
    \/ \E w \in Workers : RateLoad(w)
    \/ \E w \in Workers, s \in Samples, d \in BOOLEAN : RateUpdate(w, s, d)

SpecRating == InitRating /\ [][NextRating]_vars

StoredRow(U, id) == CHOOSE u \in U : u.id = id

\* C14: every call update_rating(sample, role) on a copy whose rating of that
\* role is old leaves the hundredth nearest to 0.7*old + 0.3*sample in the
\* copy and in the stored row; from old = 0 that is 0.3*sample, sample 4 from
\* 0 gives 1.2 and sample 5 from 1.2 gives 2.34.
C14_EmaRounded ==
    [][\A w \in Workers, s \in Samples, d \in BOOLEAN :
          RateUpdate(w, s, d) =>
              LET old == Rating(wk[w].copy, d)
                  new == Rating(wk'[w].copy, d)
                  x   == 7 * old + 300 * s
              IN  /\ 10 * new - 5 <= x /\ x <= 10 * new + 5
                  /\ Rating(StoredRow(users', wk[w].copy.id), d) = new
                  /\ old = 0 => new = 30 * s
                  /\ (old = 0 /\ s = 4) => new = 120
                  /\ (old = 120 /\ s = 5) => new = 234
      ]_vars

\* One worker has applied two samples to the driver rating, the second one
\* 5, and holds 2.34, which is also what the row holds.
C14_Witness ==
    \E w \in Workers :
        /\ wk[w].pc = "loaded" /\ wk[w].n = 2
        /\ wk[w].s = 5 /\ wk[w].d
        /\ wk[w].copy.rating_as_driver = 234
        /\ StoredRow(users, wk[w].copy.id).rating_as_driver = 234

\* The ratings that two samples applied one after the other to 0 can give.
InOrder(a, b) == UNION {Ema(m, b) : m \in Ema(0, a)}

\* C13: once two workers have each applied one sample to the same role of the
\* same user, the stored rating of that role is the moving average of both
\* samples applied in one of the two orders.
C13_NoLostUpdate ==
    (/\ wk[1].pc = "loaded" /\ wk[2].pc = "loaded"
     /\ wk[1].n = 1 /\ wk[2].n = 1
     /\ wk[1].copy.id = wk[2].copy.id
     /\ wk[1].d = wk[2].d)
        => Rating(StoredRow(users, wk[1].copy.id), wk[1].d)
               \in InOrder(wk[1].s, wk[2].s) \cup InOrder(wk[2].s, wk[1].s)

\* C20: once one worker has applied a sample to the driver rating and the
\* other worker a sample to the passenger rating of the same user, the stored
\* row carries both new ratings.
C20_OtherRoleKept ==
    \A w \in Workers, v \in Workers :
        (/\ wk[w].pc = "loaded" /\ wk[v].pc = "loaded"
         /\ wk[w].n = 1 /\ wk[v].n = 1
         /\ wk[w].copy.id = wk[v].copy.id
         /\ wk[w].d /\ ~wk[v].d)
            => LET row == StoredRow(users, wk[w].copy.id)
               IN  /\ row.rating_as_driver \in Ema(0, wk[w].s)
                   /\ row.rating_as_passenger \in Ema(0, wk[v].s)

====
